---- MODULE Spec2Model ----
(***************************************************************************)
(* MKF-ECG (src/script.js): the Pan-Tompkins style pipeline, its rule      *)
(* engine and the UI handler that feeds it.                                *)
(*                                                                         *)
(* Numbers.  A JavaScript number is carried as an exact fraction           *)
(* [n |-> numerator, d |-> denominator], reduced, with d > 0.  d = 0 is a  *)
(* non-finite value: [n |-> 0, d |-> 0] is NaN (0/0) and n # 0 is an       *)
(* infinity.  The inputs drawn below are small dyadic or decimal values,   *)
(* so the exact fraction is the value the code computes up to the last     *)
(* bit of a double; no comparison in the model sits on such a tie.         *)
(* A value returned by Math.sqrt is carried as its radicand: sqrt is       *)
(* strictly increasing on [0, oo) and sqrt(0) = 0, so s = 0 iff s^2 = 0    *)
(* and s > c iff s^2 > c^2 for c >= 0.                                     *)
(*                                                                         *)
(* Buffers (Float32Array, Array used by index) are functions on 0..N-1, so *)
(* that an index of the model is the index of the source.  Lists built by  *)
(* push are sequences.                                                     *)
(***************************************************************************)
EXTENDS Integers, Sequences, FiniteSets, TLC

VARIABLES
    pc,             \* position of the run being modelled
    \* ---- detectPeaksAdaptive / preprocessAndDetect step 6-7
    integrated,     \* envelope buffer (input of the detector)
    filtered,       \* band-passed buffer (input of the detector)
    fs,             \* sampling rate
    localPeaks,     \* strict local maxima found by the first loop
    k,              \* position of `for (const idx of localPeaks)`
    SPKI, NPKI, threshI1,
    qrsCandidates, lastQRS,
    peaks,          \* finalPeaks, as returned to preprocessAndDetect
    rrsec, meanRR, sdnn, rmssd, pnn50,
    \* ---- interpretFindings
    findings,       \* `out`, the list of findings, and `details`
    \* ---- convolve
    signal, kernel, out,
    \* ---- analyzeBtn click handler
    file,           \* the selected file, by the kinds of its lines
    fsInput, winLenInput,   \* Number(...) of the two input fields
    winLen,         \* window length in seconds, as read by the click
    raw,            \* whether preprocessAndDetect was called, and raw.length
    alerts,         \* alert() calls so far
    shown           \* whether the result record reached the page

detVars  == <<integrated, filtered, fs, localPeaks, k, SPKI, NPKI, threshI1,
              qrsCandidates, lastQRS, peaks>>
hrvVars  == <<rrsec, meanRR, sdnn, rmssd, pnn50>>
convVars == <<signal, kernel, out>>
uiVars   == <<file, fsInput, winLenInput, winLen, raw, alerts, shown>>
vars     == <<pc, detVars, hrvVars, findings, convVars, uiVars>>

-----------------------------------------------------------------------------
(* Bounds of the model *)

BufLen     == 9     \* length N of the envelope and filtered buffers
MaxNonzero == 3     \* at most this many non-zero envelope samples
MaxRR      == 5     \* longest RR sequence handed to interpretFindings
MaxSig     == 4     \* longest signal handed to convolve
MaxKer     == 3     \* longest kernel handed to convolve

-----------------------------------------------------------------------------
(* Exact arithmetic on JavaScript numbers *)

RECURSIVE GCD(_, _)
GCD(a, b) == IF b = 0 THEN a ELSE GCD(b, a % b)

Abs(x) == IF x < 0 THEN -x ELSE x

Min(a, b) == IF a < b THEN a ELSE b

Max(a, b) == IF a > b THEN a ELSE b

NaN == [n |-> 0, d |-> 0]

\* n/d as a number; x/0 is an infinity and 0/0 is NaN, as in JavaScript
Rat(n, d) ==
    IF d = 0 THEN [n |-> (IF n > 0 THEN 1 ELSE IF n < 0 THEN -1 ELSE 0), d |-> 0]
    ELSE LET s == IF d < 0 THEN -1 ELSE 1
             g == GCD(Abs(n), Abs(d))
         IN  [n |-> (s * n) \div g, d |-> (s * d) \div g]

Num(i) == [n |-> i, d |-> 1]

IsFinite(x) == x.d > 0

LCM(a, b) == (a \div GCD(a, b)) * b

RAdd(x, y) ==
    IF ~(IsFinite(x) /\ IsFinite(y)) THEN NaN
    ELSE LET l == LCM(x.d, y.d)
         IN  Rat(x.n * (l \div x.d) + y.n * (l \div y.d), l)

RNeg(x) == [n |-> -x.n, d |-> x.d]

RSub(x, y) == RAdd(x, RNeg(y))

RMul(x, y) ==
    IF ~(IsFinite(x) /\ IsFinite(y)) THEN NaN
    ELSE LET g1 == GCD(Abs(x.n), y.d)
             g2 == GCD(Abs(y.n), x.d)
         IN  Rat((x.n \div g1) * (y.n \div g2), (x.d \div g2) * (y.d \div g1))

RDiv(x, y) ==
    IF ~(IsFinite(x) /\ IsFinite(y)) THEN NaN
    ELSE IF y.n = 0 THEN Rat(x.n, 0)
    ELSE RMul(x, Rat(y.d, y.n))

\* x < y; false when either side is NaN
RLt(x, y) ==
    /\ IsFinite(x) /\ IsFinite(y)
    /\ LET l == LCM(x.d, y.d)
       IN  x.n * (l \div x.d) < y.n * (l \div y.d)

RGt(x, y) == RLt(y, x)

RAbs(x) == [n |-> Abs(x.n), d |-> x.d]

\* Math.round of a finite number: floor(x + 1/2)
JsRound(x) == (2 * x.n + x.d) \div (2 * x.d)

\* truthiness of a number: 0 and NaN are falsy
Truthy(x) == x.n # 0

RECURSIVE SumSeq(_, _)
\* arr.reduce((a,b)=>a+b, 0), from position i on
SumSeq(arr, i) ==
    IF i > Len(arr) THEN Num(0) ELSE RAdd(arr[i], SumSeq(arr, i + 1))


-----------------------------------------------------------------------------
(* Inputs of the detector *)

EnvVals == {0, 1, 8}

Indices == 0 .. BufLen - 1

\* envelopes of BufLen samples, at most MaxNonzero of them non-zero
Envelopes ==
    {e \in [Indices -> EnvVals] :
        Cardinality({i \in Indices : e[i] # 0}) <= MaxNonzero}

\* filtered buffers: flat, or rising to a single crest at c and falling after it
FilteredShapes ==
    {[i \in Indices |-> 0]}
    \cup {[i \in Indices |-> BufLen - Abs(i - c)] : c \in Indices}

SampleRates == {1, 2, 10}

-----------------------------------------------------------------------------
(* detectPeaksAdaptive *)

NoQRS == -9999

IsLocalMaxPlateau(x, i) == x[i] >= x[i-1] /\ x[i] >= x[i+1]

\* integrated[i] > integrated[i-1] && integrated[i] > integrated[i+1]
IsLocalMax(x, i) == x[i] > x[i-1] /\ x[i] > x[i+1]

\* for (let i=2;i<N-2;i++)
ScanFirst == 2

ScanLast(N) == N - 3

RECURSIVE FindLocalPeaks(_, _, _)
FindLocalPeaks(x, N, i) ==
    IF i > ScanLast(N) THEN <<>>
    ELSE (IF IsLocalMax(x, i) THEN <<i>> ELSE <<>>) \o FindLocalPeaks(x, N, i + 1)

RECURSIVE MaxOf(_, _, _)
\* Math.max(...integrated)
MaxOf(x, N, i) == IF i = N - 1 THEN x[i] ELSE Max(x[i], MaxOf(x, N, i + 1))

RECURSIVE SumAt(_, _, _)
\* seedPeaks.reduce((a,b)=>a+integrated[b],0)
SumAt(x, ps, i) == IF i > Len(ps) THEN 0 ELSE x[ps[i]] + SumAt(x, ps, i + 1)

SeedLen(N, f) == Min(N, JsRound(Num(f * 2)))

SeedSPKI(x, N, lp, f) ==
    LET seedPeaks == SelectSeq(lp, LAMBDA p : p < SeedLen(N, f))
    IN  IF Len(seedPeaks) # 0
        THEN RDiv(Num(SumAt(x, seedPeaks, 1)), Num(Len(seedPeaks)))
        ELSE RMul(Num(MaxOf(x, N, 0)), Rat(3, 10))

SeedNPKI(S) == RMul(Rat(2, 100), S)

\* NPKI + 0.25*(SPKI - NPKI)
Threshold(S, Nz) == RAdd(Nz, RMul(Rat(1, 4), RSub(S, Nz)))

\* 0.125*val + 0.875*level
Smooth(val, level) == RAdd(RMul(Rat(1, 8), val), RMul(Rat(7, 8), level))

Refractory(f) == JsRound(Rat(f, 4))

SearchHalf(f) == JsRound(Rat(5 * f, 100))

DedupGap(f) == JsRound(Rat(f, 5))

\* val > threshI1 && (idx - lastQRS) > refractory
Accepts(val, th, idx, last, f) ==
    RGt(val, th) /\ (idx - last) > Refractory(f)

RECURSIVE RefineFrom(_, _, _, _, _)
\* for (let j=start+1;j<=end;j++) if (filtered[j] > rVal) {...}
RefineFrom(y, j, end, rIdx, rVal) ==
    IF j > end THEN rIdx
    ELSE IF y[j] > rVal THEN RefineFrom(y, j + 1, end, j, y[j])
    ELSE RefineFrom(y, j + 1, end, rIdx, rVal)

\* the position of the largest filtered sample within idx +- searchHalf
Refine(y, N, idx, f) ==
    LET start == Max(0, idx - SearchHalf(f))
        end   == Min(N - 1, idx + SearchHalf(f))
    IN  RefineFrom(y, start + 1, end, start, y[start])

NextLastQRSRefined(idx, rIdx) == rIdx

\* lastQRS = idx
NextLastQRS(idx, rIdx) == idx

KeepPeakAtGap(final, p, f) ==
    Len(final) = 0 \/ (p - final[Len(final)]) >= DedupGap(f)

\* finalPeaks.length===0 || (p - finalPeaks[finalPeaks.length-1]) > Math.round(0.2*fs)
KeepPeak(final, p, f) ==
    Len(final) = 0 \/ (p - final[Len(final)]) > DedupGap(f)

RECURSIVE Dedup(_, _, _, _)
\* for (let p of qrsCandidates) if (...) finalPeaks.push(p)
Dedup(cands, i, final, f) ==
    IF i > Len(cands) THEN final
    ELSE Dedup(cands, i + 1,
               IF KeepPeak(final, cands[i], f) THEN Append(final, cands[i]) ELSE final,
               f)

-----------------------------------------------------------------------------
(* preprocessAndDetect, step 7, and std *)

RRIntervalsReversed(ps, f) ==
    [i \in 1 .. Max(0, Len(ps) - 1) |-> Rat(ps[i] - ps[i+1], f)]

\* rrsec.push((peaks[i] - peaks[i-1]) / fs), i = 1 .. peaks.length-1
RRIntervals(ps, f) ==
    [i \in 1 .. Max(0, Len(ps) - 1) |-> Rat(ps[i+1] - ps[i], f)]

MeanUnguarded(rr) == RDiv(SumSeq(rr, 1), Num(Len(rr)))

\* rrsec.length ? sum/rrsec.length : 0
Mean(rr) == IF Len(rr) # 0 THEN RDiv(SumSeq(rr, 1), Num(Len(rr))) ELSE Num(0)

\* std(arr), as the radicand of its Math.sqrt
std(arr) ==
    LET n == Len(arr)
    IN  IF n = 0 THEN Num(0)
        ELSE LET mean == RDiv(SumSeq(arr, 1), Num(n))
                 sq   == [i \in 1 .. n |-> RMul(RSub(arr[i], mean), RSub(arr[i], mean))]
             IN  RDiv(SumSeq(sq, 1), Num(n))

\* rrsec.length ? std(rrsec) : 0
Sdnn(rr) == IF Len(rr) # 0 THEN std(rr) ELSE Num(0)

\* diffs.push(Math.abs(rrsec[i]-rrsec[i-1])), i = 1 .. rrsec.length-1
Diffs(rr) ==
    [i \in 1 .. Max(0, Len(rr) - 1) |-> RAbs(RSub(rr[i+1], rr[i]))]

\* Math.sqrt(diffs.length ? sum(b*b)/diffs.length : 0), as its radicand
Rmssd(diffs) ==
    IF Len(diffs) # 0
    THEN RDiv(SumSeq([i \in 1 .. Len(diffs) |-> RMul(diffs[i], diffs[i])], 1),
              Num(Len(diffs)))
    ELSE Num(0)

\* diffs.length ? diffs.filter(d=>d>0.05).length / diffs.length : 0
Pnn50(diffs) ==
    IF Len(diffs) # 0
    THEN RDiv(Num(Len(SelectSeq(diffs, LAMBDA d : RGt(d, Rat(5, 100))))),
              Num(Len(diffs)))
    ELSE Num(0)

-----------------------------------------------------------------------------
(* Values of the variables a run does not use *)

NoBuf == <<>>

IdleDet ==
    /\ integrated = NoBuf /\ filtered = NoBuf
    /\ localPeaks = <<>> /\ k = 0
    /\ SPKI = NaN /\ NPKI = NaN /\ threshI1 = NaN
    /\ qrsCandidates = <<>> /\ lastQRS = NoQRS /\ peaks = <<>>

IdleHrv ==
    /\ rrsec = <<>> /\ meanRR = NaN /\ sdnn = NaN /\ rmssd = NaN /\ pnn50 = NaN

IdleConv == signal = NoBuf /\ kernel = NoBuf /\ out = NoBuf

NoFile == [chosen |-> FALSE, numeric |-> 0, other |-> 0]

NotCalled == [called |-> FALSE, length |-> 0]

IdleUi ==
    /\ file = NoFile /\ fsInput = NaN /\ winLenInput = NaN /\ winLen = NaN
    /\ raw = NotCalled /\ alerts = <<>> /\ shown = FALSE

-----------------------------------------------------------------------------
(* The detector run: preprocessAndDetect from step 6 on *)

InitDetect ==
    /\ pc = "detect"
    /\ integrated \in Envelopes
    /\ filtered \in FilteredShapes
    /\ fs \in SampleRates
    /\ localPeaks = <<>> /\ k = 0
    /\ SPKI = NaN /\ NPKI = NaN /\ threshI1 = NaN
    /\ qrsCandidates = <<>> /\ lastQRS = NoQRS /\ peaks = <<>>
    /\ IdleHrv /\ findings = <<>> /\ IdleConv /\ IdleUi

\* lines 123-142: the local maxima, the early return, the seeds
DetectStart ==
    /\ pc = "detect"
    /\ LET lp == FindLocalPeaks(integrated, BufLen, ScanFirst)
           S  == SeedSPKI(integrated, BufLen, lp, fs)
       IN  /\ localPeaks' = lp
           /\ IF Len(lp) = 0
              THEN /\ pc' = "metrics"
                   /\ UNCHANGED <<SPKI, NPKI, threshI1, k>>
              ELSE /\ pc' = "scan"
                   /\ SPKI' = S
                   /\ NPKI' = SeedNPKI(S)
                   /\ threshI1' = Threshold(S, SeedNPKI(S))
                   /\ k' = 1
    /\ UNCHANGED <<integrated, filtered, fs, qrsCandidates, lastQRS, peaks>>
    /\ UNCHANGED <<hrvVars, findings, convVars, uiVars>>

Scanning == pc = "scan" /\ k <= Len(localPeaks)

\* one pass of the loop of line 144, the branch that accepts
ScanAccept ==
    /\ Scanning
    /\ LET idx == localPeaks[k]
           val == Num(integrated[idx])
       IN  /\ Accepts(val, threshI1, idx, lastQRS, fs)
           /\ LET rIdx == Refine(filtered, BufLen, idx, fs)
                  S    == Smooth(val, SPKI)
              IN  /\ qrsCandidates' = Append(qrsCandidates, rIdx)
                  /\ lastQRS' = NextLastQRS(idx, rIdx)
                  /\ SPKI' = S
                  /\ threshI1' = Threshold(S, NPKI)
    /\ k' = k + 1
    /\ UNCHANGED <<pc, integrated, filtered, fs, localPeaks, NPKI, peaks>>
    /\ UNCHANGED <<hrvVars, findings, convVars, uiVars>>

\* one pass of the loop of line 144, the branch that updates the noise level
ScanNoise ==
    /\ Scanning
    /\ LET idx == localPeaks[k]
           val == Num(integrated[idx])
       IN  /\ ~Accepts(val, threshI1, idx, lastQRS, fs)
           /\ NPKI' = Smooth(val, NPKI)
           /\ threshI1' = Threshold(SPKI, Smooth(val, NPKI))
    /\ k' = k + 1
    /\ UNCHANGED <<pc, integrated, filtered, fs, localPeaks, SPKI,
                   qrsCandidates, lastQRS, peaks>>
    /\ UNCHANGED <<hrvVars, findings, convVars, uiVars>>

\* lines 167-173: the loop is over; drop close detections and return
DetectReturn ==
    /\ pc = "scan" /\ k > Len(localPeaks)
    /\ peaks' = Dedup(qrsCandidates, 1, <<>>, fs)
    /\ pc' = "metrics"
    /\ UNCHANGED <<integrated, filtered, fs, localPeaks, k, SPKI, NPKI, threshI1,
                   qrsCandidates, lastQRS>>
    /\ UNCHANGED <<hrvVars, findings, convVars, uiVars>>

\* lines 102-117: RR intervals, the four metrics, the result record
ComputeMetrics ==
    /\ pc = "metrics"
    /\ LET rr    == RRIntervals(peaks, fs)
           diffs == Diffs(rr)
       IN  /\ rrsec' = rr
           /\ meanRR' = Mean(rr)
           /\ sdnn' = Sdnn(rr)
           /\ rmssd' = Rmssd(diffs)
           /\ pnn50' = Pnn50(diffs)
    /\ pc' = "returned"
    /\ UNCHANGED <<detVars, findings, convVars, uiVars>>

NextDetect ==
    \/ DetectStart
    \/ ScanAccept
    \/ ScanNoise
    \/ DetectReturn
    \/ ComputeMetrics

SpecDetect == InitDetect /\ [][NextDetect]_vars

-----------------------------------------------------------------------------
(* Claims about the detector, checked under SpecDetect *)

FinalSpacing ==
    \A i, j \in 1 .. Len(peaks) :
        i < j => peaks[j] - peaks[i] > (2 * fs + 5) \div 10

RawSpacing ==
    (lastQRS' # lastQRS /\ lastQRS # NoQRS)
        => lastQRS' - lastQRS > (2 * fs + 4) \div 8

\* C1: two raw candidates accepted one after the other (successive values of
\* lastQRS) are more than round(0.25*fs) samples apart, and any two entries of
\* the returned peak list are more than round(0.2*fs) samples apart.
C1_Refractory == []FinalSpacing /\ [][RawSpacing]_vars

\* a run at fs = 10 that turned a local maximum down and returned two peaks
C1_Witness ==
    /\ pc = "metrics" /\ fs = 10
    /\ Len(peaks) >= 2
    /\ Len(localPeaks) > Len(qrsCandidates)

\* a run whose second detection was dropped as a duplicate of the first
DedupDrops == pc = "metrics" /\ Len(qrsCandidates) = 2 /\ Len(peaks) = 1

\* C2: the returned peaks are strictly increasing valid indices of the
\* filtered buffer; every RR interval is positive and there are
\* max(0, len(peaks)-1) of them.
C2_PeaksIncreasing ==
    /\ \A i \in 1 .. Len(peaks) : peaks[i] >= 0 /\ peaks[i] < BufLen
    /\ \A i \in 1 .. Len(peaks) - 1 : peaks[i] < peaks[i+1]
    /\ pc = "returned" =>
          /\ Len(rrsec) = (IF Len(peaks) > 1 THEN Len(peaks) - 1 ELSE 0)
          /\ \A i \in 1 .. Len(rrsec) :
                /\ rrsec[i].n > 0 /\ rrsec[i].d > 0
                /\ rrsec[i].n * fs = (peaks[i+1] - peaks[i]) * rrsec[i].d

\* a result record with three peaks and two RR intervals
C2_Witness ==
    /\ pc = "returned" /\ Len(peaks) >= 3 /\ Len(rrsec) = 2

\* C4: 0 or 1 peaks give meanRR = SDNN = 0; fewer than 3 peaks give
\* RMSSD = pNN50 = 0; the four metrics of a result record are finite numbers.
C4_DegenerateMetrics ==
    pc = "returned" =>
          /\ Len(peaks) <= 1 => meanRR = Num(0) /\ sdnn = Num(0)
          /\ Len(peaks) < 3 => rmssd = Num(0) /\ pnn50 = Num(0)
          /\ meanRR.d > 0 /\ sdnn.d > 0 /\ rmssd.d > 0 /\ pnn50.d > 0

\* a result record with a single peak and no RR interval
C4_Witness ==
    /\ pc = "returned" /\ Len(peaks) = 1 /\ Len(rrsec) = 0 /\ meanRR = Num(0)

\* two peaks: one RR interval, no successive difference
TwoPeaks == pc = "returned" /\ Len(peaks) = 2 /\ meanRR.n > 0 /\ rmssd = Num(0)

ScanStepEffect ==
    (pc = "scan" /\ k <= Len(localPeaks) /\ k' = k + 1) =>
        LET idx  == localPeaks[k]
            val  == Num(integrated[idx])
            mix(level) == RAdd(RMul(Rat(125, 1000), val), RMul(Rat(875, 1000), level))
        IN  /\ IF RGt(val, threshI1) /\ idx - lastQRS > (2 * fs + 4) \div 8
               THEN /\ Len(qrsCandidates') = Len(qrsCandidates) + 1
                    /\ SubSeq(qrsCandidates', 1, Len(qrsCandidates)) = qrsCandidates
                    /\ lastQRS' = idx
                    /\ SPKI' = mix(SPKI)
                    /\ NPKI' = NPKI
               ELSE /\ NPKI' = mix(NPKI)
                    /\ SPKI' = SPKI
                    /\ lastQRS' = lastQRS
                    /\ qrsCandidates' = qrsCandidates
            /\ threshI1' = RAdd(NPKI', RMul(Rat(25, 100), RSub(SPKI', NPKI')))

\* C9: each local maximum either is accepted (one refined index appended,
\* lastQRS set to the raw index, SPKI smoothed, NPKI kept) or updates NPKI
\* alone; the threshold is then NPKI + 0.25*(SPKI - NPKI) of the new levels.
C9_ScanStep == [][ScanStepEffect]_vars

\* the scan has accepted a maximum whose refined index differs from the raw
\* one, and has treated another maximum as noise
C9_Witness ==
    /\ pc = "scan" /\ Len(qrsCandidates) >= 1
    /\ qrsCandidates[Len(qrsCandidates)] # lastQRS
    /\ k - 1 > Len(qrsCandidates)

\* a maximum above the threshold turned down by the refractory period alone
RefractoryOnly ==
    /\ pc = "scan" /\ k <= Len(localPeaks)
    /\ RGt(Num(integrated[localPeaks[k]]), threshI1)
    /\ localPeaks[k] - lastQRS <= Refractory(fs)

\* a maximum outside the refractory period turned down by the threshold alone
ThresholdOnly ==
    /\ pc = "scan" /\ k <= Len(localPeaks)
    /\ ~RGt(Num(integrated[localPeaks[k]]), threshI1)
    /\ localPeaks[k] - lastQRS > Refractory(fs)

StrictMaxima(lo, hi) ==
    {i \in lo .. hi :
        integrated[i] > integrated[i-1] /\ integrated[i] > integrated[i+1]}

Listed(s) == {s[i] : i \in 1 .. Len(s)}

NoMaxima == pc = "returned" /\ Len(localPeaks) = 0 /\ peaks = <<>>

-----------------------------------------------------------------------------
(* interpretFindings *)

\* meanRR ? Math.round(60/meanRR) : 0
Bpm(mean) == IF Truthy(mean) THEN JsRound(RDiv(Num(60), mean)) ELSE 0

RateLabelShifted(bpm) ==
    IF bpm = 0 THEN "No reliable heartbeats detected"
    ELSE IF bpm < 50 THEN "Bradycardia"
    ELSE IF bpm <= 60 THEN "Mild bradycardia"
    ELSE IF bpm <= 100 THEN "Normal heart rate"
    ELSE IF bpm <= 150 THEN "Tachycardia"
    ELSE "High rate"

\* lines 183-190: the heart-rate category
RateLabel(bpm) ==
    IF bpm = 0 THEN "No reliable heartbeats detected"
    ELSE IF bpm < 50 THEN "Bradycardia"
    ELSE IF bpm < 60 THEN "Mild bradycardia"
    ELSE IF bpm <= 100 THEN "Normal heart rate"
    ELSE IF bpm <= 150 THEN "Tachycardia"
    ELSE "High rate"

RateLabels ==
    {"No reliable heartbeats detected", "Bradycardia", "Mild bradycardia",
     "Normal heart rate", "Tachycardia", "High rate"}

\* lines 194-202; sdnn and rmssd are radicands, so 0.12 and 0.1 are squared
RhythmLabel(sd, rm, pn) ==
    LET afCount == (IF RGt(sd, Rat(144, 10000)) THEN 1 ELSE 0)
                 + (IF RGt(rm, Rat(1, 100)) THEN 1 ELSE 0)
                 + (IF RGt(pn, Rat(20, 100)) THEN 1 ELSE 0)
    IN  IF afCount >= 2 THEN "Likely AFib"
        ELSE IF afCount = 1 THEN "Possible AFib"
        ELSE "No strong AFib signature"

IsPrematureNoPause(prev, curr, next) == RLt(curr, RMul(Rat(8, 10), prev))

\* curr < 0.8*prev && next > 1.15*prev
IsPremature(prev, curr, next) ==
    /\ RLt(curr, RMul(Rat(8, 10), prev))
    /\ RGt(next, RMul(Rat(115, 100), prev))

RECURSIVE PvcFrom(_, _)
\* for (let i=1;i<rrsec.length-1;i++); source index i is position i+1 here
PvcFrom(rr, i) ==
    IF ~(i < Len(rr) - 1) THEN <<>>
    ELSE (IF IsPremature(rr[i], rr[i+1], rr[i+2]) THEN <<i>> ELSE <<>>)
         \o PvcFrom(rr, i + 1)

\* lines 205-215
PvcIndices(rr) == IF Len(rr) >= 3 THEN PvcFrom(rr, 1) ELSE <<>>

\* rrsec.filter(r=>r > 3.0)
Pauses(rr) == SelectSeq(rr, LAMBDA r : RGt(r, Num(3)))

interpretFindings(rr, mean, sd, rm, pn) ==
    LET bpm == Bpm(mean)
        pvc == PvcIndices(rr)
        pauses == Pauses(rr)
    IN  [text |-> <<RateLabel(bpm), RhythmLabel(sd, rm, pn)>>
                  \o (IF Len(pvc) > 0 THEN <<"PVCs detected">> ELSE <<>>)
                  \o (IF Len(pauses) > 0 THEN <<"Long pause(s) detected">> ELSE <<>>)
                  \o <<"HRV">>,
         details |-> [bpm |-> bpm, sdnn |-> sd, rmssd |-> rm, pnn50 |-> pn,
                      pvcCount |-> Len(pvc), longPauses |-> Len(pauses)],
         pvcIndices |-> pvc]

\* RR intervals in seconds: 0.3, 0.5, 0.8, 1.0, 3.5 and 121
RRVals == {Rat(3, 10), Rat(1, 2), Rat(4, 5), Num(1), Rat(7, 2), Num(121)}

RRSeqs == UNION {[1 .. n -> RRVals] : n \in 0 .. MaxRR}

\* the classifier is handed an RR sequence and the metrics
\* preprocessAndDetect computes from it
InitClassify ==
    /\ pc = "classify"
    /\ rrsec \in RRSeqs
    /\ meanRR = Mean(rrsec)
    /\ sdnn = Sdnn(rrsec)
    /\ rmssd = Rmssd(Diffs(rrsec))
    /\ pnn50 = Pnn50(Diffs(rrsec))
    /\ findings = <<>>
    /\ fs = 0 /\ IdleDet /\ IdleConv /\ IdleUi

Interpret ==
    /\ pc = "classify"
    /\ findings' = interpretFindings(rrsec, meanRR, sdnn, rmssd, pnn50)
    /\ pc' = "classified"
    /\ UNCHANGED <<detVars, hrvVars, convVars, uiVars>>

NextClassify == Interpret

SpecClassify == InitClassify /\ [][NextClassify]_vars

-----------------------------------------------------------------------------
(* Claims about the classifier, checked under SpecClassify *)

RateOf(text) == {l \in RateLabels : \E i \in 1 .. Len(text) : text[i] = l}

\* the category the thresholds give a non-zero rate
Category(bpm) ==
    IF bpm < 50 THEN "Bradycardia"
    ELSE IF bpm >= 50 /\ bpm < 60 THEN "Mild bradycardia"
    ELSE IF bpm >= 60 /\ bpm <= 100 THEN "Normal heart rate"
    ELSE IF bpm > 100 /\ bpm <= 150 THEN "Tachycardia"
    ELSE "High rate"

\* round(60/meanRR) for meanRR = n/d > 0: floor(60d/n + 1/2)
Round60Over(mean) == (120 * mean.d + mean.n) \div (2 * mean.n)

\* C5 as stated: with meanRR > 0 the rate is round(60/meanRR) and exactly one
\* category is emitted, by the thresholds 50, 60, 100, 150; "no reliable
\* heartbeats" is emitted if and only if meanRR is not greater than 0.
C5_RateCategory ==
    pc = "classified" =>
        /\ RGt(meanRR, Num(0)) =>
              /\ findings.details.bpm = Round60Over(meanRR)
              /\ RateOf(findings.text) = {Category(findings.details.bpm)}
        /\ ("No reliable heartbeats detected" \in RateOf(findings.text))
              <=> ~RGt(meanRR, Num(0))

\* C5, amended: with meanRR > 0 the rate is round(60/meanRR); "no reliable
\* heartbeats" is emitted if and only if the rate is 0 (meanRR not greater
\* than 0, or greater than 120 s); otherwise exactly one category is emitted,
\* by the thresholds 50, 60, 100, 150.
C5_RateCategoryByBpm ==
    pc = "classified" =>
        /\ RGt(meanRR, Num(0)) => findings.details.bpm = Round60Over(meanRR)
        /\ ~RGt(meanRR, Num(0)) => findings.details.bpm = 0
        /\ findings.details.bpm = 0 <=>
              (~RGt(meanRR, Num(0)) \/ RGt(meanRR, Num(120)))
        /\ findings.details.bpm = 0 =>
              RateOf(findings.text) = {"No reliable heartbeats detected"}
        /\ findings.details.bpm # 0 =>
              RateOf(findings.text) = {Category(findings.details.bpm)}

\* a mean RR above 120 s: the rate rounds to 0
C5_Witness ==
    /\ pc = "classified" /\ RGt(meanRR, Num(120))
    /\ findings.details.bpm = 0
    /\ findings.text[1] = "No reliable heartbeats detected"

RateSeen(l) == pc = "classified" /\ findings.text[1] = l

SeenBrady == RateSeen("Bradycardia")

SeenMild == RateSeen("Mild bradycardia")

SeenNormal == RateSeen("Normal heart rate")

SeenTachy == RateSeen("Tachycardia")

SeenHigh == RateSeen("High rate")

\* a rate of exactly 60, the boundary between mild bradycardia and normal
SeenSixty == pc = "classified" /\ findings.details.bpm = 60

\* source index i (position i+1 of rrsec) is a premature beat
Premature(i) ==
    /\ i >= 1 /\ i <= Len(rrsec) - 2
    /\ 10 * rrsec[i+1].n * rrsec[i].d < 8 * rrsec[i].n * rrsec[i+1].d
    /\ 100 * rrsec[i+2].n * rrsec[i].d > 115 * rrsec[i].n * rrsec[i+2].d

PvcExample == <<Rat(4, 5), Rat(4, 5), Rat(1, 2), Num(1), Rat(4, 5)>>

\* C6: index i is marked if and only if it is interior and rr[i] < 0.8*rr[i-1]
\* and rr[i+1] > 1.15*rr[i-1]; pvcCount is the number of such indices; for
\* [0.8, 0.8, 0.5, 1.0, 0.8] exactly index 2 is marked.
C6_PvcIndices ==
    pc = "classified" =>
        /\ Listed(findings.pvcIndices) = {i \in 0 .. Len(rrsec) - 1 : Premature(i)}
        /\ findings.details.pvcCount =
              Cardinality({i \in 0 .. Len(rrsec) - 1 : Premature(i)})
        /\ rrsec = PvcExample => findings.pvcIndices = <<2>>

C6_Witness ==
    /\ pc = "classified" /\ rrsec = PvcExample
    /\ findings.details.pvcCount = 1

\* two premature beats in one sequence
TwoPvc == pc = "classified" /\ findings.details.pvcCount = 2

-----------------------------------------------------------------------------
(* convolve *)

RECURSIVE Float32Step(_, _)
\* the spacing of the float32 values around an integer of magnitude a
Float32Step(a, st) == IF a < 16777216 * st THEN st ELSE Float32Step(a, 2 * st)

\* the store into a Float32Array, for an integer: round to nearest, ties to even
Fround(x) ==
    LET a  == Abs(x)
        st == Float32Step(a, 1)
        q  == a \div st
        r  == a % st
        up == IF 2 * r > st \/ (2 * r = st /\ q % 2 = 1) THEN q + 1 ELSE q
    IN  (IF x < 0 THEN -1 ELSE 1) * up * st

ConvIndexUncentred(i, j, kHalf) == i - j

\* const idx = i - j + kHalf
ConvIndex(i, j, kHalf) == i - j + kHalf

RECURSIVE ConvSum(_, _, _, _)
\* the inner loop, j = 0 .. m-1, for output sample i
ConvSum(sig, ker, i, j) ==
    LET n == Len(sig)
        m == Len(ker)
        idx == ConvIndex(i, j, m \div 2)
    IN  IF j >= m THEN 0
        ELSE (IF idx >= 0 /\ idx < n THEN sig[idx + 1] * ker[j + 1] ELSE 0)
             + ConvSum(sig, ker, i, j + 1)

\* buffers of convolve are sequences: sample i of the source is position i+1
convolve(sig, ker) ==
    [p \in 1 .. Len(sig) |-> Fround(ConvSum(sig, ker, p - 1, 0))]

SigVals == {-1, 0, 2, 16777216}

KerVals == {0, 1}

Signals == UNION {[1 .. n -> SigVals] : n \in 0 .. MaxSig}

Kernels == UNION {[1 .. m -> KerVals] : m \in 1 .. MaxKer}

InitConv ==
    /\ pc = "convolve"
    /\ signal \in Signals
    /\ kernel \in Kernels
    /\ out = NoBuf
    /\ fs = 0 /\ IdleDet /\ IdleHrv /\ findings = <<>> /\ IdleUi

Convolve ==
    /\ pc = "convolve"
    /\ out' = convolve(signal, kernel)
    /\ pc' = "convolved"
    /\ UNCHANGED <<detVars, hrvVars, findings, signal, kernel, uiVars>>

NextConv == Convolve

SpecConv == InitConv /\ [][NextConv]_vars

\* odd length, 1 at the centre tap, 0 elsewhere
CentreDelta(ker) ==
    /\ Len(ker) % 2 = 1
    /\ \A p \in 1 .. Len(ker) :
          ker[p] = (IF 2 * p = Len(ker) + 1 THEN 1 ELSE 0)

\* C8: convolving with an odd-length kernel that is 1 at the centre tap and 0
\* elsewhere returns a buffer of the same length with every sample unchanged,
\* the edge samples included.
C8_CentreDeltaIdentity ==
    (pc = "convolved" /\ CentreDelta(kernel)) =>
        /\ Len(out) = Len(signal)
        /\ \A p \in 1 .. Len(signal) : out[p] = signal[p]

\* a three-tap centre kernel over a signal with non-zero samples at both edges
C8_Witness ==
    /\ pc = "convolved" /\ CentreDelta(kernel) /\ Len(kernel) = 3
    /\ Len(signal) >= 3
    /\ signal[1] # 0 /\ signal[Len(signal)] # 0
    /\ out = signal

\* a sum that a Float32Array cannot hold exactly
RoundedStore ==
    /\ pc = "convolved"
    /\ \E p \in 1 .. Len(signal) : out[p] # ConvSum(signal, kernel, p - 1, 0)

-----------------------------------------------------------------------------
(* The analyzeBtn click handler *)

MinSamples == 50

DefaultFs == 250

DefaultWinLen == 30

LowCut == 5

HighCut == 15

\* Number(value) || dflt
OrDefault(x, dflt) == IF Truthy(x) THEN x ELSE Num(dflt)

\* the length of vals.slice(0, end) for vals of length len
SliceLen(len, end) ==
    LET e == IF end < 0 THEN Max(len + end, 0) ELSE Min(end, len)
    IN  Max(e, 0)

\* lines 288-300: one value per line that has a numeric column
ValsLength(f) == f.numeric

Files ==
    {NoFile} \cup
    {[chosen |-> TRUE, numeric |-> c, other |-> o] :
        c \in {0, 49, 50, 60, 7500}, o \in {0, 1}}

FsInputs == {NaN, Num(0), Num(-250), Num(1), Num(20), Num(250)}

WinLenInputs == {NaN, Num(0), Rat(1, 10), Num(1), Num(30)}

InitUi ==
    /\ pc = "idle"
    /\ file \in Files
    /\ fsInput \in FsInputs
    /\ winLenInput \in WinLenInputs
    /\ fs = NaN /\ winLen = NaN
    /\ raw = NotCalled /\ alerts = <<>> /\ shown = FALSE
    /\ IdleDet /\ IdleHrv /\ findings = <<>> /\ IdleConv

\* lines 280-281: no file selected
ClickNoFile ==
    /\ pc = "idle" /\ ~file.chosen
    /\ alerts' = Append(alerts, "Upload a single-column CSV")
    /\ pc' = "done"
    /\ UNCHANGED <<detVars, hrvVars, findings, convVars,
                   file, fsInput, winLenInput, winLen, raw, shown>>

\* lines 282-285, 326: read the inputs, start the reader
Click ==
    /\ pc = "idle" /\ file.chosen
    /\ fs' = OrDefault(fsInput, DefaultFs)
    /\ winLen' = OrDefault(winLenInput, DefaultWinLen)
    /\ pc' = "reading"
    /\ UNCHANGED <<integrated, filtered, localPeaks, k, SPKI, NPKI, threshI1,
                   qrsCandidates, lastQRS, peaks>>
    /\ UNCHANGED <<hrvVars, findings, convVars,
                   file, fsInput, winLenInput, raw, alerts, shown>>

\* reader.onload, lines 286-301: too few values
OnLoadTooShort ==
    /\ pc = "reading"
    /\ ValsLength(file) < MinSamples
    /\ alerts' = Append(alerts, "ECG too short")
    /\ pc' = "done"
    /\ UNCHANGED <<detVars, hrvVars, findings, convVars,
                   file, fsInput, winLenInput, winLen, raw, shown>>

\* reader.onload, lines 286-324: crop, run the pipeline, show the result.
\* preprocessAndDetect and interpretFindings hold no check of their parameters
\* and no throw: the call returns a result record for every raw and fs.
OnLoadRun ==
    /\ pc = "reading"
    /\ ~(ValsLength(file) < MinSamples)
    /\ LET maxSamples == JsRound(RMul(winLen, fs))
       IN  raw' = [called |-> TRUE,
                   length |-> SliceLen(ValsLength(file), maxSamples)]
    /\ shown' = TRUE
    /\ pc' = "done"
    /\ UNCHANGED <<detVars, hrvVars, findings, convVars,
                   file, fsInput, winLenInput, winLen, alerts>>

NextUi ==
    \/ ClickNoFile
    \/ Click
    \/ OnLoadTooShort
    \/ OnLoadRun

SpecUi == InitUi /\ [][NextUi]_vars

\* fs <= 0, lowCut >= highCut, or a cutoff outside (0, fs/2)
InvalidParameter(f) ==
    \/ ~RGt(f, Num(0))
    \/ LowCut >= HighCut
    \/ ~(LowCut > 0 /\ RLt(Num(2 * LowCut), f))
    \/ ~(HighCut > 0 /\ RLt(Num(2 * HighCut), f))

\* C3: a run with an invalid parameter fails with an error and produces no
\* result record: the pipeline is not run and nothing is shown.
C3_InvalidParameterFails ==
    (pc = "done" /\ file.chosen /\ InvalidParameter(fs))
        => /\ ~raw.called
           /\ ~shown
           /\ Len(alerts) > 0

\* C7: preprocessAndDetect is never called on fewer than 50 samples; with
\* fewer than 50 values the user is notified and the pipeline does not run.
C7_MinimumSamples ==
    /\ raw.called => raw.length >= 50
    /\ (pc = "done" /\ file.chosen /\ ValsLength(file) < 50)
          => Len(alerts) > 0 /\ ~raw.called

\* valid parameters (fs = 250, a window of 0.1 s) and a file of 50 values or
\* more: the crop leaves 25 samples for the pipeline
CroppedBelowMinimum ==
    /\ pc = "done" /\ fs = Num(250) /\ ~InvalidParameter(fs)
    /\ raw.called /\ raw.length = 25

\* the part of C7 the code does keep: too few values are turned down
ShortFileRejected ==
    (pc = "done" /\ file.chosen /\ ValsLength(file) < 50)
        => Len(alerts) > 0 /\ ~raw.called

=============================================================================
